---- MODULE Spec2Model ----
(***************************************************************************)
(* Model of scripts/gen_hot_schema.py: the generator of a "hot" JSON       *)
(* Schema.  The script parses --width/--depth/--out, builds one nested     *)
(* allOf + if/then/else tree per property with nested_block, stores the    *)
(* trees under schema["properties"], dumps the schema to the output file   *)
(* and prints a confirmation line.                                         *)
(*                                                                         *)
(* JSON objects are TLA+ records (functions over strings), JSON arrays are *)
(* sequences, f-strings are string concatenations of ToString values.      *)
(***************************************************************************)
EXTENDS Integers, Sequences, FiniteSets, TLC

VARIABLES
    args,     \* argparse namespace: [width, depth, out]                (l.8)
    pc,       \* position in the script / in nested_block
    schema,   \* the module-level dict `schema`                      (l.34-53)
    i,        \* loop variable of `for i in range(1, args.width + 1)`   (l.55)
    name,     \* nested_block parameter `name`                          (l.10)
    depth,    \* nested_block parameter `depth`                         (l.10)
    lvl,      \* loop variable of `for lvl in range(1, depth + 1)`      (l.18)
    node,     \* nested_block local accumulator `node`               (l.17-19)
    caller,   \* where nested_block returns to: "for" (l.57) or "direct"
    outfile,  \* contents of the file args.out, NoFile while not written
    stdout,   \* lines printed so far                                   (l.61)
    wraps,    \* history: executions of the loop body l.19-31 in this run
    ops,      \* history (SpecPure): operations invoked so far
    rets,     \* history (SpecPure): <<name, depth, returned tree>>
    docs      \* history (SpecPure): <<width, depth, assembled schema>>

vars == <<args, pc, schema, i, name, depth, lvl, node, caller, outfile,
          stdout, wraps, ops, rets, docs>>

-----------------------------------------------------------------------------
(* Bounds of the model *)

MaxWidth == 3   \* largest --width explored
MaxDepth == 3   \* largest --depth explored
MaxNeg   == 1   \* --width / --depth go down to -MaxNeg (type=int accepts them)
MaxOps   == 2   \* SpecPure: number of assemble / nested_block invocations

Widths == (0 - MaxNeg) .. MaxWidth
Depths == (0 - MaxNeg) .. MaxDepth
OutPaths == {"hot.json"}
Names == {"p1", "p2"}

-----------------------------------------------------------------------------
(* Schema fragments *)

\* l.17: the innermost THEN target
LeafRef == ("$ref" :> "#/$defs/Leaf")

\* l.28: the else branch of every conditional
AltRef == ("$ref" :> "#/$defs/Alt")

\* l.25: f"{name}_K{lvl}"
KindConstNoLevel(nm, l) == nm \o "_K"
KindConstNoName(nm, l) == "_K" \o ToString(l)
KindConst(nm, l) == nm \o "_K" \o ToString(l)

\* l.56: f"p{i}"
PNameZeroBased(k) == "p" \o ToString(k - 1)
PName(k) == "p" \o ToString(k)

\* l.19-31: one execution of the loop body, the value assigned to `node`
WrapInward(nd, nm, l) ==
    [allOf |-> <<
        [type |-> "object"],
        [if   |-> [required   |-> <<"kind">>,
                   properties |-> [kind |-> [const |-> KindConst(nm, depth - l + 1)]]],
         then |-> nd,
         else |-> AltRef] >>]
WrapElseNested(nd, nm, l) ==
    [allOf |-> <<
        [type |-> "object"],
        [if   |-> [required   |-> <<"kind">>,
                   properties |-> [kind |-> [const |-> KindConst(nm, l)]]],
         then |-> nd,
         else |-> nd] >>]
Wrap(nd, nm, l) ==
    [allOf |-> <<
        [type |-> "object"],
        [if   |-> [required   |-> <<"kind">>,
                   properties |-> [kind |-> [const |-> KindConst(nm, l)]]],
         then |-> nd,
         else |-> AltRef] >>]

\* l.18: range(1, depth + 1)
LevelRangeShort(dp) == 1 .. (dp - 1)
LevelRange(dp) == 1 .. dp

\* l.55: range(1, args.width + 1)
PropRange(w) == 1 .. w

\* l.10-32: nested_block as a function of its arguments
RECURSIVE WrapFrom(_, _, _, _)
WrapFrom(nd, nm, l, dp) ==
    IF l \in LevelRange(dp) THEN WrapFrom(Wrap(nd, nm, l), nm, l + 1, dp) ELSE nd
nested_block(nm, dp) == WrapFrom(LeafRef, nm, 1, dp)

\* l.38-43
LeafDef ==
    [type |-> "object",
     properties |-> [x |-> [type |-> "integer"]],
     required |-> <<"x">>,
     additionalProperties |-> FALSE]

\* l.44-48
AltDefPermissive ==
    [type |-> "object",
     properties |-> [y |-> [type |-> "string"]]]
AltDef ==
    [type |-> "object",
     properties |-> [y |-> [type |-> "string"]],
     additionalProperties |-> FALSE]

\* l.34-53: the schema literal
SchemaLiteral ==
    ("$schema" :> "https://json-schema.org/draft/2020-12/schema") @@
    ("$id" :> "https://example.com/hot_nested") @@
    ("$defs" :> [Leaf |-> LeafDef, Alt |-> AltDef]) @@
    [type |-> "object",
     properties |-> <<>>,
     additionalProperties |-> FALSE]

\* l.57: schema["properties"][pname] = value
SetProperty(s, k, v) == [s EXCEPT !.properties = (k :> v) @@ @]

\* l.61: the confirmation line
Message(a) ==
    "Wrote " \o a.out \o " (width=" \o ToString(a.width)
             \o ", depth=" \o ToString(a.depth) \o ")"

NoFile == [written |-> FALSE]
NoFrame == [frame |-> FALSE]

-----------------------------------------------------------------------------
(* The script *)

\* l.4-8 and l.34-53: the state when the for loop of l.55 is reached
Init ==
    /\ args \in [width : Widths, depth : Depths, out : OutPaths]
    /\ pc = "for"
    /\ schema = SchemaLiteral
    /\ i = 1
    /\ name = "" /\ depth = 0 /\ lvl = 0 /\ node = NoFrame
    /\ caller = "for"
    /\ outfile = NoFile
    /\ stdout = <<>>
    /\ wraps = 0
    /\ ops = 0 /\ rets = {} /\ docs = {}

\* l.17: node = {"$ref": "#/$defs/Leaf"}
StaleNode == node
InitialNode == LeafRef

\* l.10-17: entry of nested_block(nm, dp)
EnterBlock(nm, dp) ==
    /\ name' = nm
    /\ depth' = dp
    /\ node' = InitialNode
    /\ lvl' = 1
    /\ pc' = "block"

\* l.55-57: the loop has a next i; nested_block(pname, args.depth) is called
ForCall ==
    /\ pc = "for"
    /\ i \in PropRange(args.width)
    /\ EnterBlock(PName(i), args.depth)
    /\ caller' = "for"
    /\ UNCHANGED <<args, schema, i, outfile, stdout, wraps, ops, rets, docs>>

\* l.18-31: one iteration of the loop of nested_block
WrapStep ==
    /\ pc = "block"
    /\ lvl \in LevelRange(depth)
    /\ node' = Wrap(node, name, lvl)
    /\ lvl' = lvl + 1
    /\ wraps' = wraps + 1
    /\ UNCHANGED <<args, pc, schema, i, name, depth, caller, outfile, stdout,
                   ops, rets, docs>>

\* l.32 and l.57: nested_block returns node, stored under schema properties
ReturnToFor ==
    /\ pc = "block"
    /\ lvl \notin LevelRange(depth)
    /\ caller = "for"
    /\ schema' = SetProperty(schema, name, node)
    /\ i' = i + 1
    /\ pc' = "for"
    /\ UNCHANGED <<args, name, depth, lvl, node, caller, outfile, stdout,
                   wraps, ops, rets, docs>>

\* l.55 -> l.59: range exhausted
ForExit ==
    /\ pc = "for"
    /\ i \notin PropRange(args.width)
    /\ pc' = "open"
    /\ UNCHANGED <<args, schema, i, name, depth, lvl, node, caller, outfile,
                   stdout, wraps, ops, rets, docs>>

\* l.59-60: open(args.out, "w") and json.dump succeed
WriteEarly ==
    /\ pc \in {"for", "open"}
    /\ outfile' = [written |-> TRUE, path |-> args.out, json |-> schema]
    /\ pc' = "print"
    /\ UNCHANGED <<args, schema, i, name, depth, lvl, node, caller, stdout,
                   wraps, ops, rets, docs>>
Write ==
    /\ pc = "open"
    /\ outfile' = [written |-> TRUE, path |-> args.out, json |-> schema]
    /\ pc' = "print"
    /\ UNCHANGED <<args, schema, i, name, depth, lvl, node, caller, stdout,
                   wraps, ops, rets, docs>>

\* l.59: open raises OSError (unwritable path); the script dies with a traceback
WriteFail ==
    /\ pc = "open"
    /\ pc' = "error"
    /\ UNCHANGED <<args, schema, i, name, depth, lvl, node, caller, outfile,
                   stdout, wraps, ops, rets, docs>>

\* l.61
PrintWrote ==
    /\ pc = "print"
    /\ stdout' = Append(stdout, Message(args))
    /\ pc' = "done"
    /\ UNCHANGED <<args, schema, i, name, depth, lvl, node, caller, outfile,
                   wraps, ops, rets, docs>>

Next ==
    \/ ForCall
    \/ WrapStep
    \/ ReturnToFor
    \/ ForExit
    \/ Write
    \/ WriteFail
    \/ PrintWrote

Spec == Init /\ [][Next]_vars

\* The interpreter runs the single thread until the script ends
FairSpec == Spec /\ WF_vars(Next)

-----------------------------------------------------------------------------
(* nested_block and the assembly loop l.55-57 invoked as functions, in any   *)
(* order and with any arguments: build(name, depth), assemble(width, depth). *)

\* a caller evaluates nested_block(nm, dp)                              (l.10)
CallBlock(nm, dp) ==
    /\ pc = "idle"
    /\ ops < MaxOps
    /\ ops' = ops + 1
    /\ EnterBlock(nm, dp)
    /\ caller' = "direct"
    /\ wraps' = 0
    /\ UNCHANGED <<args, schema, i, outfile, stdout, rets, docs>>

\* l.32: nested_block returns node to that caller
ReturnDirect ==
    /\ pc = "block"
    /\ lvl \notin LevelRange(depth)
    /\ caller = "direct"
    /\ rets' = rets \cup {<<name, depth, node>>}
    /\ pc' = "idle"
    /\ UNCHANGED <<args, schema, i, name, depth, lvl, node, caller, outfile,
                   stdout, wraps, ops, docs>>

\* l.34-55: a fresh schema literal, then the loop over range(1, w + 1)
CallAssemble(w, dp) ==
    /\ pc = "idle"
    /\ ops < MaxOps
    /\ ops' = ops + 1
    /\ args' = [args EXCEPT !.width = w, !.depth = dp]
    /\ schema' = SchemaLiteral
    /\ i' = 1
    /\ wraps' = 0
    /\ pc' = "for"
    /\ UNCHANGED <<name, depth, lvl, node, caller, outfile, stdout, rets, docs>>

\* l.55-57 finished: the assembled schema is the result
ReturnAssembled ==
    /\ pc = "for"
    /\ i \notin PropRange(args.width)
    /\ docs' = docs \cup {<<args.width, args.depth, schema>>}
    /\ pc' = "idle"
    /\ UNCHANGED <<args, schema, i, name, depth, lvl, node, caller, outfile,
                   stdout, wraps, ops, rets>>

InitPure ==
    /\ args \in [width : {0}, depth : {0}, out : OutPaths]
    /\ pc = "idle"
    /\ schema = SchemaLiteral
    /\ i = 1
    /\ name = "" /\ depth = 0 /\ lvl = 0 /\ node = NoFrame
    /\ caller = "direct"
    /\ outfile = NoFile
    /\ stdout = <<>>
    /\ wraps = 0
    /\ ops = 0 /\ rets = {} /\ docs = {}

NextPure ==
    \/ \E nm \in Names, dp \in Depths : CallBlock(nm, dp)
    \/ \E w \in Widths, dp \in Depths : CallAssemble(w, dp)
    \/ ForCall
    \/ WrapStep
    \/ ReturnToFor
    \/ ReturnDirect
    \/ ReturnAssembled

SpecPure == InitPure /\ [][NextPure]_vars

-----------------------------------------------------------------------------
(* Reading a generated tree *)

\* l.19-31: nd is one layer: allOf of {type: object} and one if/then/else
IsLayer(nd) ==
    /\ DOMAIN nd = {"allOf"}
    /\ Len(nd.allOf) = 2
    /\ nd.allOf[1] = [type |-> "object"]
    /\ DOMAIN nd.allOf[2] = {"if", "then", "else"}

\* l.27, l.28, l.23-26: the parts of a layer
ThenOf(nd) == nd.allOf[2].then
ElseOf(nd) == nd.allOf[2].else
IfOf(nd) == nd.allOf[2]["if"]
ConstOf(nd) == IfOf(nd).properties.kind.const

\* the layers met when following the then branches from nd, outermost first,
\* ending with the first node that is not a layer
RECURSIVE Chain(_)
Chain(nd) == IF IsLayer(nd) THEN <<nd>> \o Chain(ThenOf(nd)) ELSE <<nd>>
Layers(nd) == Len(Chain(nd)) - 1
Base(nd) == Chain(nd)[Len(Chain(nd))]

Props == schema.properties
AfterLoop == pc \in {"open", "print", "done", "error"}

-----------------------------------------------------------------------------
(* Claims about nested_block *)

\* nd has exactly n layers, each an allOf of {type: object} and one
\* if/then/else, and the then branches lead to the Leaf reference
WellNested(nd, n) ==
    /\ Layers(nd) = n
    /\ Base(nd) = ("$ref" :> "#/$defs/Leaf")
    /\ \A j \in 1 .. n : DOMAIN IfOf(Chain(nd)[j]) = {"required", "properties"}

\* C1: for depth >= 0, nested_block(name, depth) has exactly depth layers,
\* each an allOf of exactly two members ({type: object}, then one
\* if/then/else), the then branches reach the Leaf $ref after exactly depth
\* steps, and for depth = 0 the result is the Leaf $ref itself.  Stated of
\* the accumulator while the loop runs (lvl - 1 layers so far) and of every
\* tree the loop of l.55-57 has stored.
C1_DepthLayers ==
    /\ (pc = "block" /\ depth >= 0) => WellNested(node, lvl - 1)
    /\ args.depth >= 0 =>
         \A k \in DOMAIN Props :
            /\ WellNested(Props[k], args.depth)
            /\ args.depth = 0 => Props[k] = ("$ref" :> "#/$defs/Leaf")

C1_Witness ==
    /\ args.depth = 3
    /\ "p2" \in DOMAIN Props
    /\ Layers(Props["p2"]) = 3

\* the tree of the example: depth 2 for p1
P1Depth2 ==
    [allOf |-> <<
        [type |-> "object"],
        [if   |-> [required |-> <<"kind">>,
                   properties |-> [kind |-> [const |-> "p1_K2"]]],
         then |-> [allOf |-> <<
                    [type |-> "object"],
                    [if   |-> [required |-> <<"kind">>,
                               properties |-> [kind |-> [const |-> "p1_K1"]]],
                     then |-> ("$ref" :> "#/$defs/Leaf"),
                     else |-> ("$ref" :> "#/$defs/Alt")] >>],
         else |-> ("$ref" :> "#/$defs/Alt")] >>]

\* C2: nesting grows outward.  While nested_block runs, after the levels
\* 1 .. lvl-1 the outermost layer of the accumulator tests "{name}_K{lvl-1}",
\* the layer directly above the Leaf reference tests "{name}_K1", and the
\* layer created at level l has the result of level l-1 as its then branch;
\* at the return the outermost layer tests "{name}_K{depth}", and depth 2
\* for p1 gives p1_K2 wrapping p1_K1 wrapping Leaf.
C2_GrowsOutward ==
    (pc = "block" /\ lvl >= 2) =>
        LET c == Chain(node)
            n == lvl - 1
        IN  /\ Len(c) = n + 1
            /\ ConstOf(c[1]) = name \o "_K" \o ToString(n)
            /\ ConstOf(c[n]) = name \o "_K1"
            /\ \A l \in 1 .. n :
                  /\ ConstOf(c[n - l + 1]) = name \o "_K" \o ToString(l)
                  /\ ThenOf(c[n - l + 1]) = nested_block(name, l - 1)
            /\ (name = "p1" /\ depth = 2 /\ lvl = 3) => node = P1Depth2

C2_Witness ==
    /\ pc = "block" /\ name = "p1" /\ depth = 2 /\ lvl = 3
    /\ node = P1Depth2

\* C3 as stated: in every generated property tree level 1 is the outermost
\* layer and level depth the innermost one, i.e. the layer at distance
\* depth - lvl + 1 from the leaf (the lvl-th layer from the outside) carries
\* "{name}_K{lvl}".
C3_Level1Outermost ==
    \A k \in DOMAIN Props :
        LET c == Chain(Props[k])
        IN  \A l \in 1 .. Layers(Props[k]) :
               ConstOf(c[l]) = k \o "_K" \o ToString(l)

\* C3 amended: in every generated property tree level depth is the outermost
\* layer and level 1 the innermost one, whose then branch is the Leaf
\* reference; the layer at distance lvl from the leaf carries "{name}_K{lvl}".
C3_LevelDepthOutermost ==
    \A k \in DOMAIN Props :
        LET c == Chain(Props[k])
            n == Layers(Props[k])
        IN  /\ args.depth >= 1 => n = args.depth
            /\ n >= 1 =>
                 /\ ConstOf(c[1]) = k \o "_K" \o ToString(args.depth)
                 /\ ConstOf(c[n]) = k \o "_K1"
                 /\ ThenOf(c[n]) = ("$ref" :> "#/$defs/Leaf")
            /\ \A l \in 1 .. n :
                  ConstOf(c[n + 1 - l]) = k \o "_K" \o ToString(l)

C3_Witness ==
    /\ args.depth = 3
    /\ outfile.written
    /\ "p3" \in DOMAIN outfile.json.properties
    /\ ConstOf(outfile.json.properties["p3"]) = "p3_K3"

\* C7: at every layer of every property tree, and of the accumulator of
\* nested_block after every wrap, the else branch is exactly the $ref to Alt.
C7_ElseIsAlt ==
    /\ pc = "block" =>
         \A j \in 1 .. Layers(node) :
            ElseOf(Chain(node)[j]) = ("$ref" :> "#/$defs/Alt")
    /\ \A k \in DOMAIN Props :
         \A j \in 1 .. Layers(Props[k]) :
            ElseOf(Chain(Props[k])[j]) = ("$ref" :> "#/$defs/Alt")

C7_Witness ==
    /\ pc = "block" /\ lvl = 4
    /\ Layers(node) = 3
    /\ "p1" \in DOMAIN Props /\ Layers(Props["p1"]) = 3

-----------------------------------------------------------------------------
(* Claims about the document *)

\* Leaf as described: object type, one property x of integer type, x
\* required, no additional properties allowed
LeafAsDescribed(leaf) ==
    /\ leaf.type = "object"
    /\ DOMAIN leaf.properties = {"x"}
    /\ leaf.properties.x = [type |-> "integer"]
    /\ leaf.required = <<"x">>
    /\ "additionalProperties" \in DOMAIN leaf
    /\ leaf.additionalProperties = FALSE

\* Alt without its additionalProperties key: object type, one property y of
\* string type, no required list
AltCore(alt) ==
    /\ alt.type = "object"
    /\ DOMAIN alt.properties = {"y"}
    /\ alt.properties.y = [type |-> "string"]
    /\ "required" \notin DOMAIN alt

C5_NegativeRejected ==
    (args.width < 0 \/ args.depth < 0) =>
        /\ pc \notin {"block", "open", "print", "done"}
        /\ DOMAIN Props = {}
        /\ ~outfile.written
        /\ stdout = <<>>

\* C6: for width >= 0 and depth >= 0, after the assembly loop the properties
\* map has exactly width keys, namely p1 .. p{width}, and the value under
\* p{i} is nested_block("p{i}", depth); for width = 0 the map is empty while
\* $defs still holds both Leaf and Alt.
C6_Properties ==
    (AfterLoop /\ args.width >= 0 /\ args.depth >= 0) =>
        /\ DOMAIN Props = {"p" \o ToString(k) : k \in 1 .. args.width}
        /\ Cardinality(DOMAIN Props) = args.width
        /\ args.width >= 2 => {"p1", "p2"} \subseteq DOMAIN Props
        /\ \A k \in 1 .. args.width :
              Props["p" \o ToString(k)] = nested_block("p" \o ToString(k), args.depth)
        /\ args.width = 0 => DOMAIN Props = {}
        /\ DOMAIN schema["$defs"] = {"Leaf", "Alt"}
        /\ schema["$defs"].Leaf = LeafDef
        /\ schema["$defs"].Alt = AltDef

C6_Witness ==
    /\ pc = "open"
    /\ args.width = 3 /\ args.depth = 2
    /\ DOMAIN Props = {"p1", "p2", "p3"}

\* the discriminant constants of the tree nd
ConstsOf(nd) == {ConstOf(Chain(nd)[j]) : j \in 1 .. Layers(nd)}

MaxIndex == 12   \* property indices and levels compared as formatted strings

\* C9: discriminant constants are pairwise distinct across the document:
\* the constant of layer a of property i equals that of layer b of property
\* j only when i = j and a = b; and "p{i}_K{a}" = "p{j}_K{b}" only when i = j
\* and a = b (formatted indices up to MaxIndex, compared once the run is
\* complete).
C9_ConstantsDistinct ==
    /\ \A k1 \in DOMAIN Props, k2 \in DOMAIN Props :
         \A j1 \in 1 .. Layers(Props[k1]), j2 \in 1 .. Layers(Props[k2]) :
            ConstOf(Chain(Props[k1])[j1]) = ConstOf(Chain(Props[k2])[j2])
               => (k1 = k2 /\ j1 = j2)
    /\ pc = "done" =>
         \A i1 \in 1 .. MaxIndex, i2 \in 1 .. MaxIndex :
            \A a \in 1 .. MaxIndex, b \in 1 .. MaxIndex :
               KindConst(PName(i1), a) = KindConst(PName(i2), b)
                  => (i1 = i2 /\ a = b)

C9_Witness ==
    /\ pc = "done"
    /\ args.width = 3 /\ args.depth = 3
    /\ Cardinality(UNION {ConstsOf(Props[k]) : k \in DOMAIN Props}) = 9

\* C8: assembly is deterministic: two invocations of the assembly with the
\* same (width, depth) give equal documents, two calls of nested_block with
\* the same (name, depth) return equal trees whatever ran before them, and a
\* tree stored by the assembly equals the one a direct call returns.
C8_Deterministic ==
    /\ \A a \in docs, b \in docs :
          (a[1] = b[1] /\ a[2] = b[2]) => a[3] = b[3]
    /\ \A a \in rets, b \in rets :
          (a[1] = b[1] /\ a[2] = b[2]) => a[3] = b[3]
    /\ \A r \in rets, dc \in docs :
          (r[2] = dc[2] /\ r[1] \in DOMAIN dc[3].properties)
             => dc[3].properties[r[1]] = r[3]

C8_Witness ==
    /\ pc = "idle" /\ ops = 2
    /\ rets = {}
    /\ \E dc \in docs : docs = {dc} /\ dc[1] = 2 /\ dc[2] = 2

\* no I/O has happened
NoIO == ~outfile.written /\ stdout = <<>>

\* width * depth when both are non-negative, no wrap otherwise
WrapBound ==
    IF args.width >= 0 /\ args.depth >= 0 THEN args.width * args.depth ELSE 0

C10_Order ==
    /\ pc \in {"for", "block"} => NoIO
    /\ wraps <= WrapBound
    /\ AfterLoop => wraps = WrapBound
    /\ outfile.written =>
          /\ pc \in {"print", "done"}
          /\ outfile.json = schema
          /\ \A k \in 1 .. args.width :
                ("p" \o ToString(k)) \in DOMAIN outfile.json.properties
    /\ stdout # <<>> => (outfile.written /\ pc = "done" /\ Len(stdout) = 1)

Terminated == pc \in {"done", "error"}

\* C10: the output file is written only after all width properties have been
\* assembled, the confirmation is printed only after the write, no I/O
\* happens while the document is under construction, the number of wrap
\* steps is bounded (width * depth when both are non-negative), and the run
\* always terminates.
C10_WriteLastAndTerminates == []C10_Order /\ <>Terminated

C10_Witness ==
    /\ pc = "done"
    /\ args.width = 3 /\ args.depth = 3 /\ wraps = 9
    /\ stdout = <<"Wrote hot.json (width=3, depth=3)">>
    /\ DOMAIN outfile.json.properties = {"p1", "p2", "p3"}

====
